---- MODULE Spec2Model ----
(***************************************************************************)
(* docker-pullator (src/src/main.rs): one invocation of the binary on a    *)
(* config of pull profiles.  The registry (fetch_tags) and the container   *)
(* runtime (docker_command) are the environment: each call they answer is  *)
(* an input of the action that makes the call.                             *)
(***************************************************************************)
EXTENDS Integers, Sequences, FiniteSets, TLC

VARIABLES
    config,      \* Config.pull_profiles: key -> PullProfile
    disk,        \* the config file: what read_config loads and write_config stores
    hub,         \* the registry: image -> the pages of its tag listing, first page first
    command,     \* the parsed SubCommand
    pc,          \* where main is: "main", "pull", "push", "targets", "clean", "add_tags", "done"
    pos,         \* index of the (profile, tag) pair the running loop is at
    responses,   \* push's local cache: image -> FetchTagsResponse.results; in add, its local response
    targets,     \* push's targets vector for the pair at pos
    tgi,         \* index of the next target in targets
    result,      \* "running", "ok" (main returns Ok) or "err" (main returns Err)
    error,       \* the context message of the error main returns, "" if none
    log,         \* history: every external call issued, in order
    failed,      \* history: index of the first pair one of whose tag/push/rm commands exited non-zero, 0 if none
    fatal,       \* history: calls that could not be launched, pulls that exited non-zero, fetches that failed
    fetchCount,  \* history: image -> number of fetch_tags calls made by push
    ident,       \* add's locals library and repo, once resolved
    hist         \* history: the last add or edit that returned Ok: what it was given

vars == <<config, disk, hub, command, pc, pos, responses, targets, tgi, result, error,
          log, failed, fatal, fetchCount, ident, hist>>

-----------------------------------------------------------------------------
(* Bounds and input alphabets                                              *)

MaxTags == 3

Libraries == {"lib"}
Repos == {"app"}
DeclTags == {"a", "b"}
RegTagOrder == <<"a", "b", "c">>
DigestValues == {"D", "E"}
Registries == {"reg"}

\* Option<String>: <<>> is None, <<s>> is Some(s)
None == <<>>
Some(s) == <<s>>
OptLibraries == {None} \cup {Some(l) : l \in Libraries}
OptDigests == {None} \cup {Some(d) : d \in DigestValues}

\* what a docker invocation can come back with: exit 0, exit non-zero, or the
\* process could not be spawned (io::Error from status()/output())
Outcomes == {"ok", "nonzero", "launch"}

-----------------------------------------------------------------------------
(* Pure functions                                                          *)

image_name(library, repo) ==
    IF library # None THEN library[1] \o "/" \o repo ELSE repo

image(profile) == image_name(profile.library, profile.repo)

\* format!("{}:{}", image, tag)
Ref(img, tag) == img \o ":" \o tag

\* format!("{}/{}:{}", command.registry, &image, tag)
TargetRef(registry, img, tag) == registry \o "/" \o img \o ":" \o tag

\* BTreeMap<String, _> iterates in ascending key order; the keys the model uses, ascending
KeyOrder == <<"app", "lib/app">>

Range(s) == {s[i] : i \in 1..Len(s)}

RECURSIVE Flatten(_)
Flatten(ss) == IF ss = <<>> THEN <<>> ELSE Head(ss) \o Flatten(Tail(ss))

\* config.pull_profiles.values()
Values(cfg) ==
    LET keys == SelectSeq(KeyOrder, LAMBDA k : k \in DOMAIN cfg)
    IN  [i \in 1..Len(keys) |-> cfg[keys[i]]]

\* the (profile, tag) pairs in the order of
\* `for profile in config.pull_profiles.values() { for tag in &profile.tags {..} }`
Items(cfg) ==
    LET ps == Values(cfg)
    IN  Flatten([i \in 1..Len(ps) |->
            [j \in 1..Len(ps[i].tags) |->
                [image |-> image(ps[i]), tag |-> ps[i].tags[j], profile |-> i]]])

\* find falling back to the first descriptor when no name matches
FindOrFirst(results, tag) ==
    LET hits == {i \in 1..Len(results) : results[i].name = tag}
    IN  IF hits = {} THEN (IF results = <<>> THEN 0 ELSE 1)
        ELSE CHOOSE i \in hits : \A j \in hits : i <= j

\* response.results.iter().find(|item| &item.name == tag): index of the first match, 0 if none
Find(results, tag) ==
    LET hits == {i \in 1..Len(results) : results[i].name = tag}
    IN  IF hits = {} THEN 0 ELSE CHOOSE i \in hits : \A j \in hits : i <= j

\* the filter left out: every listed tag counts as an alias
SameDigestAny(x, item) == TRUE

\* .filter(|x| x.digest == item.digest): Option<String> equality, None == None included
SameDigest(x, item) == x.digest = item.digest

\* lines 141-152 of push: the requested tag first, then every listed tag whose
\* digest equals the found descriptor's, in listing order
Targets(registry, img, tag, results) ==
    LET i == Find(results, tag)
        class == IF i = 0 THEN <<>>
                 ELSE SelectSeq(results, LAMBDA x : SameDigest(x, results[i]))
    IN  <<TargetRef(registry, img, tag)>>
        \o [k \in 1..Len(class) |-> TargetRef(registry, img, class[k].name)]

\* responses.get(&image)
CacheHit(cache, img) == img \in DOMAIN cache

\* the insert left out: the cache never fills
CacheNoInsert(cache, img, response) == cache

\* responses.insert(image.clone(), response.clone())
CacheInsert(cache, img, response) ==
    [k \in DOMAIN cache \cup {img} |-> IF k = img THEN response ELSE cache[k]]

\* the exit status of pull left unchecked
PullFailsOnLaunchOnly(st) == st = "launch"

\* pull: `.status()...?` fails on a launch error, `!status.success()` bails on non-zero
PullFails(st) == st # "ok"

\* `.output()...?` / `.status()...?` in push and clean: only a launch error returns
StepFails(st) == st = "launch"

\* fetch_tags, lines 335-350: one GET with page_size=100, and the `results` of its
\* body; FetchTagsResponse has no field for the link to the next page
fetch_tags(pages) == pages[1]

\* BTreeMap::insert / HashMap::insert
MapInsert(map, k, v) ==
    [x \in DOMAIN map \cup {k} |-> IF x = k THEN v ELSE map[x]]

\* BTreeMap::remove
MapRemove(map, k) == [x \in DOMAIN map \ {k} |-> map[x]]

\* the elements of s at the indices in I, in the order of s: what MultiSelect
\* returns for the ticked options
Pick(s, I) ==
    LET F[k \in 0..Len(s)] ==
            IF k = 0 THEN <<>>
            ELSE IF k \in I THEN Append(F[k-1], s[k]) ELSE F[k-1]
    IN  F[Len(s)]

Selections(s) == {Pick(s, I) : I \in SUBSET (1..Len(s))}

\* add, lines 249-255: the names of the listing, sorted descending
SortedNames(results) ==
    LET n   == Len(RegTagOrder)
        rev == [i \in 1..n |-> RegTagOrder[n + 1 - i]]
    IN  SelectSeq(rev, LAMBDA x : \E i \in 1..Len(results) : results[i].name = x)

\* an add that skips the fetch when the tags come from the flag
AddFetchesUnlessTags(cmd) == cmd.tags = None

\* add, line 244: the fetch is made whatever the flags are
AddFetches(cmd) == TRUE

\* add, lines 262-271: entry(image_name).or_insert_with(empty profile), then
\* profile.tags.extend(tags)
AddTags(cfg, library, repo, tags) ==
    LET key     == image_name(library, repo)
        profile == IF key \in DOMAIN cfg THEN cfg[key]
                   ELSE [library |-> library, repo |-> repo, tags |-> <<>>]
    IN  MapInsert(cfg, key, [profile EXCEPT !.tags = @ \o tags])

\* an edit that stores the profile whatever is kept
EditTagsKeepEmpty(cfg, key, kept) ==
    MapInsert(cfg, key, [cfg[key] EXCEPT !.tags = kept])

\* edit, lines 196-215: the chosen profile gets the kept tags; it is removed when
\* none is kept
EditTags(cfg, key, kept) ==
    IF kept = <<>> THEN MapRemove(cfg, key)
    ELSE MapInsert(cfg, key, [cfg[key] EXCEPT !.tags = kept])

-----------------------------------------------------------------------------
(* Input sets                                                              *)

RegTags == Range(RegTagOrder)

\* a FetchTagsItem without its platform list, which no code of the tool reads
Item(name, digest) == [name |-> name, digest |-> digest]

\* a listing: each registry tag absent (None) or present with an optional digest
Listings ==
    {LET present == SelectSeq(RegTagOrder, LAMBDA n : f[n] # None)
     IN  [i \in 1..Len(present) |-> Item(present[i], f[present[i]][1])]
     : f \in [RegTags -> {None} \cup {Some(d) : d \in OptDigests}]}

TagSeqs == UNION {[1..n -> DeclTags] : n \in 0..MaxTags}

Profiles ==
    [library : OptLibraries, repo : Repos, tags : TagSeqs]

\* stores as add builds them: each profile sits under the key image_name(library, repo);
\* at most MaxTags declared tags in the whole store
Configs ==
    {cfg \in UNION {[ks -> Profiles] : ks \in SUBSET Range(KeyOrder)} :
        /\ \A k \in DOMAIN cfg : image(cfg[k]) = k
        /\ Len(Items(cfg)) <= MaxTags}

Commands ==
    [name : {"pull", "clean"}, registry : {""}, clean : {FALSE}]
    \cup [name : {"push", "sync"}, registry : Registries, clean : BOOLEAN]

Images == {image_name(l, r) : l \in OptLibraries, r \in Repos}

\* the two listings the registry serves in the batch runs: the aliases a = b with a
\* third tag apart, and two tags that both lack a digest
BatchListings ==
    {<<Item("a", Some("D")), Item("b", Some("D")), Item("c", Some("E"))>>,
     <<Item("a", None), Item("b", None)>>}

\* aliasing runs: one profile with one declared tag, any listing for its image, a plain push
InitAliasing ==
    /\ config \in {cfg \in Configs : Cardinality(DOMAIN cfg) = 1 /\ Len(Items(cfg)) = 1}
    /\ hub \in {[i \in Images |-> <<h[i]>>] :
                    h \in {g \in [Images -> Listings] : \A i \in Images \ DOMAIN config : g[i] = <<>>}}
    /\ command \in [name : {"push"}, registry : Registries, clean : {FALSE}]

\* batch runs: any store, any subcommand, the registry serving one of the batch
\* listings for every image
InitBatch ==
    /\ config \in Configs
    /\ hub \in {[i \in Images |-> <<l>>] : l \in BatchListings}
    /\ command \in Commands

\* paged runs: one profile declaring tag a, whose listing the registry serves in two
\* pages, the second holding an alias of a; a plain push
PagedListings ==
    {<<<<Item("a", Some("D"))>>, <<Item("b", Some("D"))>>>>,
     <<<<Item("a", Some("D")), Item("c", Some("E"))>>, <<Item("b", Some("D"))>>>>}

InitPaged ==
    /\ config \in {cfg \in Configs : Cardinality(DOMAIN cfg) = 1 /\ Len(Items(cfg)) = 1}
    /\ hub \in {[i \in Images |-> p] : p \in PagedListings}
    /\ command \in [name : {"push"}, registry : Registries, clean : {FALSE}]

-----------------------------------------------------------------------------
(* The run                                                                 *)

\* add's library and repo before they are resolved; no add or edit has returned Ok yet
NoIdent == [library |-> None, repo |-> ""]
NoHist == [op |-> "", image |-> "", tags |-> <<>>]

Call(op, args, item, launched) ==
    [op |-> op, args |-> args, item |-> item, launched |-> launched]

Fault(op, item, kind) == [op |-> op, item |-> item, kind |-> kind]

Init ==
    /\ (InitAliasing \/ InitBatch \/ InitPaged)
    /\ disk = config
    /\ ident = NoIdent
    /\ hist = NoHist
    /\ pc = "main"
    /\ pos = 0
    /\ responses = <<>>
    /\ targets = <<>>
    /\ tgi = 0
    /\ result = "running"
    /\ error = ""
    /\ log = <<>>
    /\ failed = 0
    /\ fatal = {}
    /\ fetchCount = [i \in Images |-> 0]

\* a sync that starts with its push phase
EntryPushFirst(name) == IF name = "sync" THEN "push" ELSE name

\* main, lines 81-88, and sync, line 111: the function the subcommand starts in;
\* sync starts in pull
Entry(name) == IF name = "sync" THEN "pull" ELSE name

\* main, lines 81-88: dispatch on the subcommand (sync starts with pull, line 111;
\* push starts with an empty cache, line 125)
Main ==
    /\ pc = "main"
    /\ pc' = Entry(command.name)
    /\ pos' = 1
    /\ UNCHANGED <<config, hub, command, ident, hist, responses, targets, tgi, result, error,
                   disk, log, failed, fatal, fetchCount>>

\* main, lines 88-92: the subcommand returned Ok, the config is written back
Finish(cfg) ==
    /\ pc' = "done"
    /\ result' = "ok"
    /\ error' = ""
    /\ disk' = cfg

\* `?` on an Err: main returns it
Raise(msg) ==
    /\ pc' = "done"
    /\ result' = "err"
    /\ error' = msg
    /\ disk' = disk

\* pull, lines 303-315: one iteration of the loops
PullStep ==
    /\ pc = "pull"
    /\ pos <= Len(Items(config))
    /\ \E st \in Outcomes :
        LET it == Items(config)[pos] IN
        /\ log' = Append(log, Call("pull", <<Ref(it.image, it.tag)>>, pos, st # "launch"))
        /\ IF PullFails(st)
           THEN /\ Raise(IF st = "launch" THEN "Failed to pull image"
                         ELSE "Pull failed with status")
                /\ fatal' = fatal \cup {Fault("pull", pos, st)}
                /\ pos' = pos
           ELSE /\ pos' = pos + 1
                /\ fatal' = IF st = "ok" THEN fatal ELSE fatal \cup {Fault("pull", pos, st)}
                /\ UNCHANGED <<pc, result, error, disk>>
    /\ UNCHANGED <<config, hub, command, ident, hist, responses, targets, tgi, failed, fetchCount>>

\* pull, line 318, and sync, lines 111-121: pull returned Ok
PullEnd ==
    /\ pc = "pull"
    /\ pos > Len(Items(config))
    /\ IF command.name = "sync"
       THEN /\ pc' = "push"
            /\ pos' = 1
            /\ UNCHANGED <<result, error, disk>>
       ELSE /\ Finish(config)
            /\ pos' = pos
    /\ UNCHANGED <<config, hub, command, ident, hist, responses, targets, tgi, log, failed, fatal, fetchCount>>

\* push, lines 129-152: resolve the listing of the pair's image through the cache
\* and build the targets vector
PushResolve ==
    /\ pc = "push"
    /\ pos <= Len(Items(config))
    /\ LET it == Items(config)[pos] IN
       IF CacheHit(responses, it.image)
       THEN /\ targets' = Targets(command.registry, it.image, it.tag, responses[it.image])
            /\ tgi' = 1
            /\ pc' = "targets"
            /\ UNCHANGED <<responses, result, error, disk, log, fatal, fetchCount>>
       ELSE /\ log' = Append(log, Call("fetch", <<it.image>>, pos, TRUE))
            /\ fetchCount' = [fetchCount EXCEPT ![it.image] = @ + 1]
            /\ \/ LET response == fetch_tags(hub[it.image]) IN
                    /\ responses' = CacheInsert(responses, it.image, response)
                    /\ targets' = Targets(command.registry, it.image, it.tag, response)
                    /\ tgi' = 1
                    /\ pc' = "targets"
                    /\ UNCHANGED <<result, error, disk, fatal>>
               \/ /\ Raise("Failed to fetch tags")
                  /\ fatal' = fatal \cup {Fault("fetch", pos, "fetch")}
                  /\ UNCHANGED <<responses, targets, tgi>>
    /\ UNCHANGED <<config, hub, command, ident, hist, pos, failed>>

\* a push that removes the pulled reference instead of the target
StepArgsRemoveSource(img, tag, target) ==
    <<<<Ref(img, tag), target>>, <<target>>, <<Ref(img, tag)>>>>

\* push, lines 155-173: the arguments of docker tag, docker push and docker image rm
\* for one target
StepArgs(img, tag, target) ==
    <<<<Ref(img, tag), target>>, <<target>>, <<target>>>>

\* push, lines 154-174: one iteration of `for target in targets`: tag, push, image rm.
\* o[k] is what the k-th docker invocation comes back with; a step that fails
\* (StepFails) returns from push, and the later steps are not issued.
PushTarget ==
    /\ pc = "targets"
    /\ tgi <= Len(targets)
    /\ \E o \in {f \in [1..3 -> Outcomes] :
                    \A k \in 2..3 : (\E j \in 1..(k-1) : StepFails(f[j])) => f[k] = "ok"} :
        LET it     == Items(config)[pos]
            target == targets[tgi]
            stops  == {k \in 1..3 : StepFails(o[k])}
            n      == IF stops = {} THEN 3 ELSE CHOOSE k \in stops : \A j \in stops : k <= j
            ops    == <<"tag", "push", "rm">>
            args   == StepArgs(it.image, it.tag, target)
            msgs   == <<"Failed to tag image", "Failed to push image", "Failed to remove image">>
        IN
        /\ log' = log \o [k \in 1..n |-> Call(ops[k], args[k], pos, o[k] # "launch")]
        /\ failed' = IF failed = 0 /\ \E k \in 1..n : o[k] = "nonzero" THEN pos ELSE failed
        /\ fatal' = fatal \cup {Fault(ops[k], pos, "launch") : k \in {j \in 1..n : o[j] = "launch"}}
        /\ IF stops # {}
           THEN /\ Raise(msgs[n])
                /\ UNCHANGED <<pos, targets, tgi>>
           ELSE /\ IF tgi < Len(targets)
                   THEN /\ tgi' = tgi + 1
                        /\ UNCHANGED <<pc, pos, targets>>
                   ELSE /\ pc' = "push"
                        /\ pos' = pos + 1
                        /\ targets' = <<>>
                        /\ tgi' = 0
                /\ UNCHANGED <<result, error, disk>>
    /\ UNCHANGED <<config, hub, command, ident, hist, responses, fetchCount>>

\* a push that cleans whatever the option is
RunsCleanAlways(cmd) == TRUE

\* push, line 178: clean runs when the option is set
RunsClean(cmd) == cmd.clean

\* push, lines 178-182: the loops are over
PushEnd ==
    /\ pc = "push"
    /\ pos > Len(Items(config))
    /\ IF RunsClean(command)
       THEN /\ pc' = "clean"
            /\ pos' = 1
            /\ UNCHANGED <<result, error, disk>>
       ELSE /\ Finish(config)
            /\ pos' = pos
    /\ UNCHANGED <<config, hub, command, ident, hist, responses, targets, tgi, log, failed, fatal, fetchCount>>

\* clean, lines 277-288: one iteration of the loops
CleanStep ==
    /\ pc = "clean"
    /\ pos <= Len(Items(config))
    /\ \E st \in Outcomes :
        LET it == Items(config)[pos] IN
        /\ log' = Append(log, Call("rm", <<Ref(it.image, it.tag)>>, pos, st # "launch"))
        /\ failed' = IF failed = 0 /\ st = "nonzero" THEN pos ELSE failed
        /\ fatal' = IF st = "launch" THEN fatal \cup {Fault("rm", pos, "launch")} ELSE fatal
        /\ IF StepFails(st)
           THEN /\ Raise("Failed to remove image")
                /\ pos' = pos
           ELSE /\ pos' = pos + 1
                /\ UNCHANGED <<pc, result, error, disk>>
    /\ UNCHANGED <<config, hub, command, ident, hist, responses, targets, tgi, fetchCount>>

\* clean, line 290 (and push, line 182, when clean ran after push)
CleanEnd ==
    /\ pc = "clean"
    /\ pos > Len(Items(config))
    /\ Finish(config)
    /\ UNCHANGED <<config, hub, command, ident, hist, pos, responses, targets, tgi, log, failed, fatal, fetchCount>>

Next ==
    \/ Main
    \/ PullStep
    \/ PullEnd
    \/ PushResolve
    \/ PushTarget
    \/ PushEnd
    \/ CleanStep
    \/ CleanEnd

Spec == Init /\ [][Next]_vars

TypeOK ==
    /\ pc \in {"main", "pull", "push", "targets", "clean", "add_tags", "done"}
    /\ result \in {"running", "ok", "err"}
    /\ (pc = "done") = (result # "running")

-----------------------------------------------------------------------------
(* The store: add and edit, one invocation of the binary after another     *)

\* what the user types at the Library: and Repo: prompts
LibraryTexts == {"", "lib"}
RepoTexts == Repos

\* the values given to -t on the command line
FlagTags == {<<"a">>, <<"a", "b">>}

\* AddCommand as clap parses it (-t takes at least one value), and Edit
StoreCommands ==
    [name : {"add"},
     library : {None} \cup {Some(t) : t \in LibraryTexts},
     repo : {None} \cup {Some(r) : r \in Repos},
     tags : {None} \cup {Some(ts) : ts \in FlagTags}]
    \cup [name : {"edit"}]

\* the tags declared in the whole store
StoreSize(cfg) == Len(Items(cfg))

\* the config file does not exist yet: read_config gives the default, empty store
InitStore ==
    /\ config = <<>>
    /\ disk = <<>>
    /\ hub \in {[i \in Images |-> <<l>>] : l \in BatchListings}
    /\ command \in StoreCommands
    /\ ident = NoIdent
    /\ hist = NoHist
    /\ pc = "main"
    /\ pos = 0
    /\ responses = <<>>
    /\ targets = <<>>
    /\ tgi = 0
    /\ result = "running"
    /\ error = ""
    /\ log = <<>>
    /\ failed = 0
    /\ fatal = {}
    /\ fetchCount = [i \in Images |-> 0]

\* add, lines 221-244: library and repo from the flags or the prompts (None: the
\* prompt fails), then the fetch
AddFetch ==
    /\ pc = "main"
    /\ command.name = "add"
    /\ \E lib \in (IF command.library # None THEN {command.library}
                   ELSE {None} \cup {Some(t) : t \in LibraryTexts}),
          rp \in (IF command.repo # None THEN {command.repo}
                  ELSE {None} \cup {Some(r) : r \in RepoTexts}),
          fetched \in BOOLEAN :
        IF lib = None \/ rp = None
        THEN /\ Raise("Failed to prompt")
             /\ UNCHANGED <<ident, responses, log, fatal>>
        ELSE LET library == IF lib[1] = "" THEN None ELSE Some(lib[1])
                 repo    == rp[1]
                 img     == image_name(library, repo)
             IN
             /\ ident' = [library |-> library, repo |-> repo]
             /\ IF ~AddFetches(command)
                THEN /\ pc' = "add_tags"
                     /\ UNCHANGED <<responses, log, fatal, result, error, disk>>
                ELSE /\ log' = Append(log, Call("fetch", <<img>>, 0, TRUE))
                     /\ IF fetched
                        THEN /\ responses' = MapInsert(<<>>, img, fetch_tags(hub[img]))
                             /\ pc' = "add_tags"
                             /\ UNCHANGED <<fatal, result, error, disk>>
                        ELSE /\ Raise("Failed to fetch tags")
                             /\ fatal' = fatal \cup {Fault("fetch", 0, "fetch")}
                             /\ UNCHANGED responses
    /\ UNCHANGED <<config, hub, command, hist, pos, targets, tgi, failed, fetchCount>>

\* add, lines 246-273, and main, lines 90-92: the tags from the flag or from the
\* MultiSelect over the listing's names (None: the prompt fails, as it does when
\* there is nothing to choose from), then the merge into the store
AddMerge ==
    /\ pc = "add_tags"
    /\ LET img     == image_name(ident.library, ident.repo)
           options == IF img \in DOMAIN responses THEN SortedNames(responses[img]) ELSE <<>>
       IN
       \E tg \in (IF command.tags # None THEN {command.tags}
                  ELSE {None} \cup (IF options = <<>> THEN {}
                                    ELSE {Some(sel) : sel \in Selections(options)})) :
        IF tg = None
        THEN /\ Raise("Failed to prompt")
             /\ UNCHANGED <<config, hist>>
        ELSE /\ StoreSize(AddTags(config, ident.library, ident.repo, tg[1])) <= MaxTags
             /\ config' = AddTags(config, ident.library, ident.repo, tg[1])
             /\ Finish(AddTags(config, ident.library, ident.repo, tg[1]))
             /\ hist' = [op |-> "add", image |-> img, tags |-> tg[1]]
    /\ UNCHANGED <<hub, command, ident, pos, responses, targets, tgi, log, failed, fatal, fetchCount>>

\* edit, lines 185-218, and main, lines 90-92: the profile and the tags to keep
\* come from the prompts (None: the prompt fails, as it does when there is
\* nothing to choose from)
Edit ==
    /\ pc = "main"
    /\ command.name = "edit"
    /\ \E key \in {None} \cup {Some(k) : k \in DOMAIN config} :
        \E kept \in {None} \cup (IF key = None \/ config[key[1]].tags = <<>> THEN {}
                                  ELSE {Some(sel) : sel \in Selections(config[key[1]].tags)}) :
            IF key = None \/ kept = None
            THEN /\ Raise("Failed to prompt")
                 /\ UNCHANGED <<config, hist>>
            ELSE /\ config' = EditTags(config, key[1], kept[1])
                 /\ Finish(EditTags(config, key[1], kept[1]))
                 /\ hist' = [op |-> "edit", image |-> key[1], tags |-> kept[1]]
    /\ UNCHANGED <<hub, command, ident, pos, responses, targets, tgi, log, failed, fatal, fetchCount>>

\* the binary is run again: main, lines 76-79, parses the new command line and
\* reads the config file
Again ==
    /\ pc = "done"
    /\ pc' = "main"
    /\ command' \in StoreCommands
    /\ config' = disk
    /\ ident' = NoIdent
    /\ responses' = <<>>
    /\ log' = <<>>
    /\ fatal' = {}
    /\ result' = "running"
    /\ error' = ""
    /\ UNCHANGED <<disk, hub, hist, pos, targets, tgi, failed, fetchCount>>

NextStore ==
    \/ AddFetch
    \/ AddMerge
    \/ Edit
    \/ Again

SpecStore == InitStore /\ [][NextStore]_vars

-----------------------------------------------------------------------------
(* Vocabulary of the properties                                            *)

PushRun == command.name \in {"push", "sync"}

NItems == Len(Items(config))

\* the destination reference of tag name n for the pair at index i
Dest(i, n) == TargetRef(command.registry, Items(config)[i].image, n)

\* the listing push holds for the pair at index i (defined once its image is cached)
ListingOf(i) == responses[Items(config)[i].image]

Cached(i) == Items(config)[i].image \in DOMAIN responses

\* the descriptors of the pair's listing that carry the pair's tag name
Descriptors(i) ==
    LET it == Items(config)[i]
    IN  {x \in Range(responses[it.image]) : x.name = it.tag}

\* destination references that `docker tag` / `docker push` were issued for while
\* push worked on the pair at index i
Tagged(i) == {log[k].args[2] : k \in {j \in 1..Len(log) : log[j].op = "tag" /\ log[j].item = i}}
Pushed(i) == {log[k].args[1] : k \in {j \in 1..Len(log) : log[j].op = "push" /\ log[j].item = i}}

\* push has gone through the whole targets loop of the pair at index i
Done(i) ==
    /\ PushRun
    /\ \/ pc \in {"push", "targets"} /\ pos > i
       \/ pc = "clean"
       \/ pc = "done" /\ result = "ok"

\* the entries of log that clean issued: image rm of a pulled <image>:<tag>
CleanCalls ==
    LET items == Items(config)
    IN  {k \in 1..Len(log) :
            /\ log[k].op = "rm"
            /\ log[k].args = <<Ref(items[log[k].item].image, items[log[k].item].tag)>>}

-----------------------------------------------------------------------------
(* Properties                                                              *)

\* C1 (as claimed). Null-digest isolation: when the requested tag's descriptor has
\* no digest, the push targets are exactly the requested tag's destination
\* reference, whatever else the listing holds.
NullDigestIsolation ==
    pc = "targets" =>
        ((\E x \in Descriptors(pos) : x.digest = None)
            => Range(targets) = {Dest(pos, Items(config)[pos].tag)})

\* C2. Digest aliasing completeness: when the requested tag's descriptor carries a
\* digest D, the targets built for it, and the references tagged and pushed once
\* its targets loop is through, are the requested tag and every listed tag whose
\* digest is D, and nothing else.
AliasClass(i) ==
    LET ds == Descriptors(i)
    IN  {Items(config)[i].tag} \cup
        {x.name : x \in {y \in Range(ListingOf(i)) :
                            \E d \in ds : d.digest # None /\ y.digest = d.digest}}

DigestAliasingCompleteness ==
    PushRun =>
        \A i \in 1..NItems :
            (Cached(i) /\ \E d \in Descriptors(i) : d.digest # None) =>
                LET class == {Dest(i, n) : n \in AliasClass(i)}
                IN  /\ (pc = "targets" /\ pos = i) => Range(targets) = class
                    /\ Done(i) => (Tagged(i) = class /\ Pushed(i) = class)

\* C2 witness: a pushed pair whose tag shares its digest with another tag while a
\* third tag has a different digest, the two aliases pushed.
DigestAliasingWitness ==
    /\ pc = "done" /\ result = "ok" /\ command.name = "push" /\ NItems = 1
    /\ \E d \in Descriptors(1) : d.digest = Some("D")
    /\ \E y \in Range(ListingOf(1)) : y.name # Items(config)[1].tag /\ y.digest = Some("D")
    /\ \E y \in Range(ListingOf(1)) : y.digest = Some("E")
    /\ Cardinality(Pushed(1)) = 2

\* C3 (as claimed). Target deduplication: while push works on one requested tag,
\* no destination reference is tagged or pushed more than once.
TargetDeduplication ==
    \A j, k \in 1..Len(log) :
        (/\ j < k
         /\ log[j].item = log[k].item
         /\ log[j].op = log[k].op
         /\ log[j].op \in {"tag", "push"})
        => log[j].args # log[k].args

\* C4. Unknown tag fallback: when no descriptor of the listing has the requested
\* tag's name, the targets are the requested tag's destination reference alone,
\* only that reference is tagged and pushed, and push raises no error for the
\* pair unless a docker invocation could not be launched.
UnknownTagFallback ==
    PushRun =>
        \A i \in 1..NItems :
            (Cached(i) /\ Descriptors(i) = {}) =>
                LET own == Dest(i, Items(config)[i].tag)
                IN  /\ (pc = "targets" /\ pos = i) => targets = <<own>>
                    /\ Tagged(i) \cup Pushed(i) \subseteq {own}
                    /\ Done(i) => (Tagged(i) = {own} /\ Pushed(i) = {own})
                    /\ (pc = "done" /\ result = "err" /\ pos = i
                            /\ error # "Failed to fetch tags")
                          => \E f \in fatal : f.kind = "launch"

\* C4 witness: push ended Ok having pushed a tag that a non-empty listing does not hold.
UnknownTagWitness ==
    /\ pc = "done" /\ result = "ok" /\ PushRun /\ NItems >= 1
    /\ Cached(1) /\ Descriptors(1) = {} /\ ListingOf(1) # <<>>
    /\ Pushed(1) = {Dest(1, Items(config)[1].tag)}

\* C5. Cache single-fetch: during a push run fetch_tags is called at most once for
\* an image; a listing once cached is neither replaced nor dropped; and when push
\* has gone through every pair, each image with at least one declared tag was
\* fetched exactly once and no other image was fetched.
CacheSingleFetch ==
    [][/\ \A img \in Images : fetchCount'[img] <= 1
       /\ \A img \in DOMAIN responses :
            img \in DOMAIN responses' /\ responses'[img] = responses[img]
       /\ (PushRun /\ (pc' = "clean" \/ (pc' = "done" /\ result' = "ok"))) =>
            \A img \in Images :
                fetchCount'[img] =
                    IF \E i \in 1..NItems : Items(config)[i].image = img THEN 1 ELSE 0
      ]_vars

\* C5 witness: push ended Ok over two images, one of them carrying two declared
\* tags, each fetched once.
CacheSingleFetchWitness ==
    /\ pc = "done" /\ result = "ok" /\ PushRun
    /\ DOMAIN responses = Images
    /\ \E i, j \in 1..NItems : i # j /\ Items(config)[i].image = Items(config)[j].image
    /\ \A img \in Images : fetchCount[img] = 1

\* the calls push issued for the pair at index i and the destination reference t:
\* tag, push and image rm, each at least attempted
Processed(i, t) ==
    /\ \E k \in 1..Len(log) : log[k].item = i /\ log[k].op = "tag" /\ log[k].args[2] = t
    /\ \E k \in 1..Len(log) : log[k].item = i /\ log[k].op = "push" /\ log[k].args = <<t>>
    /\ \E k \in 1..Len(log) : log[k].item = i /\ log[k].op = "rm" /\ log[k].args = <<t>>

\* the destination references of the pair at index i, from the first page of the
\* registry's listing
Wanted(i) ==
    LET it == Items(config)[i]
    IN  {Dest(i, it.tag)} \cup
        {Dest(i, x.name) : x \in {y \in Range(hub[it.image][1]) :
            \E d \in Range(hub[it.image][1]) : d.name = it.tag /\ y.digest = d.digest}}

\* C6 (as claimed). Push sub-step failures are non-fatal: a run of push in which no
\* fetch failed ends with every target of every declared tag of every profile
\* processed, also when a tag, push or image rm command exited non-zero or could
\* not be launched.
PushStepFailuresNonFatal ==
    (pc = "done" /\ PushRun /\ \A f \in fatal : f.op \in {"tag", "push", "rm"}) =>
        \A i \in 1..NItems : \A t \in Wanted(i) : Processed(i, t)

\* C7 (as claimed). A fetch failure skips only the failing profile's tags: every
\* pair of a later profile still has its fetch attempted or its targets tagged.
FetchFailureSkipsOneProfile ==
    (pc = "done" /\ PushRun) =>
        \A f \in fatal : f.op = "fetch" =>
            \A i \in 1..NItems :
                Items(config)[i].profile > Items(config)[f.item].profile =>
                    \/ Tagged(i) # {}
                    \/ \E k \in 1..Len(log) :
                            log[k].op = "fetch" /\ log[k].args = <<Items(config)[i].image>>

\* C8. Pull failures are fatal: once a pull exited non-zero or could not be
\* launched, main has returned an error, that pull is the last call ever issued,
\* and no call other than a pull was issued: no later pull, and under sync no
\* fetch, tag, push or image rm.
PullFailuresFatal ==
    \A f \in fatal : f.op = "pull" =>
        /\ pc = "done" /\ result = "err"
        /\ error \in {"Failed to pull image", "Pull failed with status"}
        /\ Len(log) >= 1
        /\ log[Len(log)].op = "pull" /\ log[Len(log)].item = f.item
        /\ \A k \in 1..Len(log) : log[k].op = "pull" /\ log[k].item <= f.item
        /\ Cardinality({k \in 1..Len(log) : log[k].item = f.item}) = 1

\* C8 witness: under sync a pull exited non-zero while a later declared tag was
\* still to be pulled.
PullFailuresFatalWitness ==
    /\ command.name = "sync"
    /\ \E f \in fatal : f.op = "pull" /\ f.kind = "nonzero" /\ f.item < NItems

\* C9 (as claimed). No silent drop: when a tag, push or image rm command of a
\* declared tag exited non-zero, the run reports a failure for that pair; the only
\* report the tool makes is the error main returns, raised while at that pair.
NoSilentDrop ==
    (pc = "done" /\ failed # 0) => (result = "err" /\ pos = failed)

\* C10 (as claimed). Clean is best-effort: once clean has issued its first image
\* rm, the run ends with an image rm issued for every declared tag of every
\* profile, whether or not a removal exited non-zero or could not be launched.
CleanBestEffort ==
    (pc = "done" /\ CleanCalls # {}) =>
        \A i \in 1..NItems : \E k \in CleanCalls : log[k].item = i

-----------------------------------------------------------------------------
(* The store under add and edit                                            *)

\* the tags of a sequence, each once
NoDuplicates(s) == \A i, j \in 1..Len(s) : s[i] = s[j] => i = j

\* the last command that changed the store was an add for this invocation's
\* identity and tags: the config read at start is the store that add left
Repeats(tags) ==
    /\ hist.op = "add"
    /\ hist.image = image_name(ident.library, ident.repo)
    /\ hist.tags = tags

\* C11 (as claimed). Idempotent merge: an add that repeats the previous add, same
\* identity and same tags, leaves the store as the previous add left it, and the
\* profile lists no tag twice.
IdempotentMerge ==
    [][(pc = "add_tags" /\ pc' = "done" /\ result' = "ok" /\ Repeats(hist'.tags))
          => /\ config' = config
             /\ disk' = disk
             /\ NoDuplicates(config'[hist'.image].tags)]_vars

\* C12 (as claimed). Tag uniqueness: after any sequence of add and edit commands
\* from an empty store, no profile of the store lists a tag more than once.
TagUniqueness ==
    \A k \in DOMAIN config : NoDuplicates(config[k].tags)

\* C13. Empty-after-edit deletion: an edit that keeps no tag of the chosen profile
\* removes the profile from the store; an edit that keeps some of its tags leaves
\* the profile in the store with exactly the kept tags; every other profile is
\* unchanged, and the result is what is written back.
EmptyAfterEditDeletion ==
    [][(pc = "main" /\ command.name = "edit" /\ pc' = "done" /\ result' = "ok")
          => LET k    == hist'.image
                 kept == hist'.tags
             IN  /\ hist'.op = "edit"
                 /\ k \in DOMAIN config
                 /\ kept \in Selections(config[k].tags)
                 /\ kept = <<>> => k \notin DOMAIN config'
                 /\ kept # <<>> =>
                        /\ k \in DOMAIN config'
                        /\ config'[k] = [config[k] EXCEPT !.tags = kept]
                 /\ DOMAIN config' \subseteq DOMAIN config
                 /\ \A o \in DOMAIN config \ {k} :
                        o \in DOMAIN config' /\ config'[o] = config[o]
                 /\ disk' = config']_vars

\* C13 witness: an edit kept no tag of a profile, which is gone, and another
\* profile is still in the store.
EmptyAfterEditWitness ==
    /\ pc = "done" /\ command.name = "edit" /\ result = "ok"
    /\ hist.op = "edit" /\ hist.tags = <<>>
    /\ hist.image \notin DOMAIN config
    /\ DOMAIN config # {}

\* C14 (as claimed). No empty profile: after any sequence of add and edit commands
\* from an empty store, every profile of the store lists at least one tag, also
\* when an add selected no tag for a new identity.
NoEmptyProfile ==
    \A k \in DOMAIN config : config[k].tags # <<>>

-----------------------------------------------------------------------------
(* The order of the commands                                               *)

\* C15. Sync is pull-all-then-push-all: in a sync run no pull is issued after a
\* fetch, tag, push or image rm, and once such a command has been issued the
\* commands before it are the pulls of every declared tag, in the order declared.
SyncPullsThenPushes ==
    command.name = "sync" =>
        /\ \A k \in 2..Len(log) :
               log[k].op = "pull" => log[k-1].op = "pull"
        /\ (\E k \in 1..Len(log) : log[k].op # "pull") =>
               \A i \in 1..NItems : log[i].op = "pull" /\ log[i].item = i

\* C15 witness: a sync of at least two declared tags has reached the tag command
\* of its second pair.
SyncPullsThenPushesWitness ==
    /\ command.name = "sync"
    /\ NItems >= 2
    /\ \E k \in 1..Len(log) : log[k].op = "tag" /\ log[k].item = 2

\* the commands issued by the step
Issued == SubSeq(log', Len(log) + 1, Len(log'))

\* C16. Per-target step order in push: working on a target, push issues tag from
\* the requested tag's local reference to the target, then push of the target, then
\* image rm of the target, stopping early only when a command could not be
\* launched; the target is a destination-prefixed reference, never the pulled
\* <image>:<tag>; the next commands are those of the next target; between two
\* targets loops push issues nothing but the fetch.
PerTargetStepOrder ==
    [][/\ pc = "targets" =>
            LET it     == Items(config)[pos]
                target == targets[tgi]
                local  == Ref(it.image, it.tag)
                want   == <<[op |-> "tag", args |-> <<local, target>>],
                            [op |-> "push", args |-> <<target>>],
                            [op |-> "rm", args |-> <<target>>]>>
            IN  /\ Len(Issued) \in 1..3
                /\ \A k \in 1..Len(Issued) :
                       /\ Issued[k].op = want[k].op
                       /\ Issued[k].args = want[k].args
                       /\ Issued[k].item = pos
                /\ \E n \in RegTags \cup DeclTags : target = Dest(pos, n)
                /\ target # local
                /\ \A k \in 1..Len(Issued) : Issued[k].launched \/ k = Len(Issued)
                /\ ~Issued[Len(Issued)].launched => (pc' = "done" /\ result' = "err")
                /\ Issued[Len(Issued)].launched => Len(Issued) = 3
                /\ (Issued[Len(Issued)].launched /\ tgi < Len(targets)) =>
                       /\ pc' = "targets" /\ pos' = pos
                       /\ targets' = targets /\ tgi' = tgi + 1
       /\ pc = "push" =>
            \A k \in 1..Len(Issued) : Issued[k].op = "fetch"]_vars

\* C16 witness: push has issued the image rm of an alias target, the second or a
\* later target of its pair.
PerTargetStepOrderWitness ==
    /\ PushRun
    /\ \E k \in 1..Len(log) :
           /\ log[k].op = "rm"
           /\ \E n \in RegTags \ {Items(config)[log[k].item].tag} :
                  log[k].args = <<Dest(log[k].item, n)>>

\* the last target push builds for the pair at index i
LastTarget(i) ==
    LET t == Targets(command.registry, Items(config)[i].image, Items(config)[i].tag,
                     ListingOf(i))
    IN  t[Len(t)]

\* C17. Clean after push: without the clean option a push or sync run never enters
\* clean and issues no image rm of a pulled <image>:<tag>. With the option, clean
\* starts only after push has issued the image rm of the last target of every
\* declared tag, every command of clean comes after every command of push, no
\* pulled reference is removed twice, and a run that ends Ok has removed each
\* pulled reference exactly once.
CleanAfterPush ==
    PushRun =>
        LET cleans == CleanCalls
            n      == Len(log)
        IN
        /\ ~command.clean => (pc # "clean" /\ cleans = {})
        /\ (command.clean /\ (pc = "clean" \/ cleans # {})) =>
            /\ \A i \in 1..NItems :
                   /\ Cached(i)
                   /\ LET last == LastTarget(i)
                      IN  \E k \in 1..n :
                              /\ log[k].op = "rm" /\ log[k].item = i
                              /\ log[k].args = <<last>>
            /\ cleans = (n - Cardinality(cleans) + 1)..n
            /\ \A j, k \in cleans : log[j].item = log[k].item => j = k
        /\ (command.clean /\ pc = "done" /\ result = "ok") =>
               {log[k].item : k \in cleans} = 1..NItems

\* C17 witness: a push with the clean option over at least two declared tags ended
\* Ok, clean having removed both pulled references.
CleanAfterPushWitness ==
    /\ PushRun /\ command.clean
    /\ pc = "done" /\ result = "ok"
    /\ NItems >= 2
    /\ Cardinality(CleanCalls) = NItems

-----------------------------------------------------------------------------
(* Paged listings                                                          *)

\* everything the registry lists for the image of the pair at index i, all pages
FullListingOf(i) == Flatten(hub[Items(config)[i].image])

\* C18 (as claimed). Full listing: the listing push holds for an image is the
\* concatenation of all the pages the registry serves for it, and the targets of a
\* pair include every tag, on whatever page, that shares the digest of the
\* requested tag.
FullListing ==
    \A i \in 1..NItems :
        (PushRun /\ Cached(i)) =>
            /\ ListingOf(i) = FullListingOf(i)
            /\ (pc = "targets" /\ pos = i) =>
                   \A x, d \in Range(FullListingOf(i)) :
                       (d.name = Items(config)[i].tag /\ d.digest # None
                            /\ x.digest = d.digest)
                          => Dest(i, x.name) \in Range(targets)

-----------------------------------------------------------------------------
(* add and the registry                                                    *)

\* C19. Add is atomic with respect to fetch failure: once library and repo are
\* known, add issues the fetch, whether the tags come from the flag or not, and
\* leaves the store alone in that step; the store and the config file change only
\* after a fetch that succeeded; when the fetch fails add ends with an error, the
\* store as it was read and the config file not written.
AddAtomicOnFetchFailure ==
    [][command.name = "add" =>
          /\ (pc = "main" /\ pc' # "main" /\ error' # "Failed to prompt") =>
                 /\ Len(log') = Len(log) + 1
                 /\ log'[Len(log')].op = "fetch"
                 /\ log'[Len(log')].args = <<image_name(ident'.library, ident'.repo)>>
                 /\ config' = config /\ disk' = disk
          /\ (config' # config \/ disk' # disk) =>
                 /\ \E k \in 1..Len(log) : log[k].op = "fetch"
                 /\ fatal = {}
          /\ fatal' # {} =>
                 /\ pc' = "done" /\ result' = "err"
                 /\ config' = config /\ disk' = disk /\ config' = disk']_vars

\* C19 witness: an add with its tags given by the flag, on a store that already
\* holds a profile, ended with an error after its fetch failed.
AddAtomicOnFetchFailureWitness ==
    /\ command.name = "add" /\ command.tags # None
    /\ pc = "done" /\ result = "err"
    /\ \E f \in fatal : f.op = "fetch"
    /\ DOMAIN disk # {}
    /\ config = disk

====
